---- MODULE Spec2Model ----
(***************************************************************************)
(* tex2pdf: the log analyzer (src/src/tex2pdf/analysis.py) and the         *)
(* compilation orchestrator (src/src/tex2pdf/core.py).                     *)
(*                                                                         *)
(* Text is a sequence of one-character strings.  Offsets are 0-based and   *)
(* spans are half-open <<start, end>>, as Python's re.Match.span().        *)
(***************************************************************************)
EXTENDS Integers, Sequences, FiniteSets, TLC

(***************************************************************************)
(* Characters and the str methods the code uses.                           *)
(***************************************************************************)
LowerSeq ==
    <<"a","b","c","d","e","f","g","h","i","j","k","l","m","n","o","p","q","r","s","t","u",
      "v","w","x","y","z">>

UpperSeq ==
    <<"A","B","C","D","E","F","G","H","I","J","K","L","M","N","O","P","Q","R","S","T","U",
      "V","W","X","Y","Z">>

Lowercase == {LowerSeq[k] : k \in 1..Len(LowerSeq)}

Uppercase == {UpperSeq[k] : k \in 1..Len(UpperSeq)}

Letters == Lowercase \cup Uppercase

Digits == {"0","1","2","3","4","5","6","7","8","9"}

\* what str.strip() removes and \s matches, among the characters of the model
Whitespace == {" ", "\t", "\n", "\r", "\f"}

\* [a-zA-Z@]
NameStart == Letters \cup {"@"}

\* [a-zA-Z0-9@]
NameRest == Letters \cup Digits \cup {"@"}

Min(S) == CHOOSE x \in S : \A y \in S : x <= y

Max(S) == CHOOSE x \in S : \A y \in S : x >= y

Range(s) == {s[k] : k \in 1..Len(s)}

\* s[a:b]
Slice(s, a, b) == SubSeq(s, a + 1, b)

LowerChar(c) ==
    IF c \in Uppercase THEN LowerSeq[CHOOSE k \in 1..Len(UpperSeq) : UpperSeq[k] = c] ELSE c

\* s.lower()
Lower(s) == [k \in 1..Len(s) |-> LowerChar(s[k])]

\* lit in s
Contains(s, lit) == \E k \in 0..(Len(s) - Len(lit)) : Slice(s, k, k + Len(lit)) = lit

\* s.strip()
StripKeepAll(s) == s

Strip(s) ==
    LET keep == {k \in 1..Len(s) : s[k] \notin Whitespace}
    IN  IF keep = {} THEN <<>> ELSE SubSeq(s, Min(keep), Max(keep))

\* s.startswith(lit)
StartsWith(s, lit) == Len(s) >= Len(lit) /\ SubSeq(s, 1, Len(lit)) = lit

(***************************************************************************)
(* The literals of the patterns and of the messages.                       *)
(***************************************************************************)
\* the grave accent, U+0060, which the lexer of this language cannot hold in a string
Backtick == "U+0060"

LitUndefined ==
    <<"U","n","d","e","f","i","n","e","d"," ","c","o","n","t","r","o","l"," ","s","e","q",
      "u","e","n","c","e">>

LitLineMarker ==
    <<"l",".">>

LitPkgOpen ==
    <<"L","a","T","e","X"," ","E","r","r","o","r",":"," ","F","i","l","e"," ",Backtick>>

LitSty ==
    <<".","s","t","y">>

LitPkgClose ==
    <<"'"," ","n","o","t"," ","f","o","u","n","d">>

LitRunaway ==
    <<"R","u","n","a","w","a","y"," ","a","r","g","u","m","e","n","t">>

LitLatexError ==
    <<"L","a","T","e","X"," ","E","r","r","o","r">>

LitOops ==
    <<"O","o","p","s">>

LitUnknown ==
    <<"u","n","k","n","o","w","n">>

KwUndefined ==
    <<"u","n","d","e","f","i","n","e","d"," ","c","o","n","t","r","o","l"," ","s","e","q",
      "u","e","n","c","e">>

KwFile ==
    <<"f","i","l","e">>

KwNotFound ==
    <<"n","o","t"," ","f","o","u","n","d">>

KwRunaway ==
    <<"r","u","n","a","w","a","y"," ","a","r","g","u","m","e","n","t">>

UcsMsgHead ==
    <<"U","n","d","e","f","i","n","e","d"," ","c","o","n","t","r","o","l"," ","s","e","q",
      "u","e","n","c","e"," ","'">>

UcsMsgTail ==
    <<"'","."," ","C","h","e","c","k"," ","f","o","r"," ","t","y","p","o","s"," ","o","r",
      " ","m","i","s","s","i","n","g"," ",Backtick,"\\","u","s","e","p","a","c","k","a","g",
      "e",Backtick,"/",Backtick,"\\","n","e","w","c","o","m","m","a","n","d",Backtick,".">>

PkgMsgHead ==
    <<"M","i","s","s","i","n","g"," ","p","a","c","k","a","g","e"," ","f","i","l","e"," ",
      "'">>

PkgMsgTail ==
    <<"'","."," ","I","n","s","t","a","l","l"," ","t","h","e"," ","a","p","p","r","o","p",
      "r","i","a","t","e"," ","L","a","T","e","X"," ","p","a","c","k","a","g","e"," ","o",
      "r"," ","a","d","j","u","s","t"," ","y","o","u","r"," ","p","r","e","a","m","b","l",
      "e",".">>

RunawayMsg ==
    <<"R","u","n","a","w","a","y"," ","a","r","g","u","m","e","n","t","."," ","L","i","k",
      "e","l","y"," ","a","n"," ","u","n","c","l","o","s","e","d"," ","b","r","a","c","e",
      " ","o","r"," ","e","n","v","i","r","o","n","m","e","n","t",";"," ","c","h","e","c",
      "k"," ","f","o","r"," ","m","i","s","s","i","n","g"," ","'","}","'"," ","o","r"," ",
      "\\","e","n","d","{",".",".",".","}"," ","a","b","o","v","e",".">>

GenericMsg ==
    <<"L","a","T","e","X"," ","r","e","p","o","r","t","e","d"," ","a","n"," ","e","r","r",
      "o","r","."," ","S","e","e"," ","r","a","w"," ","f","o","r"," ","d","e","t","a","i",
      "l","s",".">>

(***************************************************************************)
(* Regular-expression matching.  MatchAt(pat, log, i) is the match of the  *)
(* pattern anchored at offset i (re.Pattern.match(log, i)), or NoMatch.    *)
(* Every quantifier of the five patterns is greedy and none of them can    *)
(* match after giving characters back: the character that must follow a    *)
(* run is outside the run's class.                                         *)
(***************************************************************************)
NoMatch == [s |-> -1, e |-> -1, g |-> <<>>, text |-> <<>>]

\* a re.Match: span <<s, e>>, the captured groups g (match.groups()) and match.group(0)
Match(log, s, e, g) == [s |-> s, e |-> e, g |-> g, text |-> SubSeq(log, s + 1, e)]

\* the literal lit is at offset i of log
LitAt(log, i, lit) ==
    /\ i >= 0
    /\ i + Len(lit) <= Len(log)
    /\ \A k \in 1..Len(lit) : log[i + k] = lit[k]

\* the offset where the longest run from p of characters in cls (not in cls, if neg) ends
SpanWhile(log, p, cls, neg) ==
    IF p >= Len(log) THEN p
    ELSE Min({j \in p..Len(log) : j = Len(log) \/ ((log[j + 1] \in cls) = neg)})

\* Undefined control sequence[^\n]*\nl\.\d+\s+(\\[a-zA-Z@]+[a-zA-Z0-9@]*)
MatchUcs(log, i) ==
    LET a == i + Len(LitUndefined)
        b == SpanWhile(log, a, {"\n"}, TRUE)
        c == b + 1
        d == c + Len(LitLineMarker)
        e == SpanWhile(log, d, Digits, FALSE)
        f == SpanWhile(log, e, Whitespace, FALSE)
        h == SpanWhile(log, f + 1, NameStart, FALSE)
        k == SpanWhile(log, h, NameRest, FALSE)
    IN  IF /\ LitAt(log, i, LitUndefined)
           /\ LitAt(log, b, <<"\n">>)
           /\ LitAt(log, c, LitLineMarker)
           /\ e > d
           /\ f > e
           /\ LitAt(log, f, <<"\\">>)
           /\ h > f + 1
        THEN Match(log, i, k, <<Slice(log, f, k)>>)
        ELSE NoMatch

\* LaTeX Error: File <U+0060>([^']+\.sty)' not found
MatchPkg(log, i) ==
    LET a == i + Len(LitPkgOpen)
        b == SpanWhile(log, a, {"'"}, TRUE)
    IN  IF /\ LitAt(log, i, LitPkgOpen)
           /\ LitAt(log, b, LitPkgClose)
           /\ b - Len(LitSty) > a
           /\ LitAt(log, b - Len(LitSty), LitSty)
        THEN Match(log, i, b + Len(LitPkgClose), <<Slice(log, a, b)>>)
        ELSE NoMatch

\* Runaway argument\??
MatchRunaway(log, i) ==
    LET a == i + Len(LitRunaway)
    IN  IF LitAt(log, i, LitRunaway)
        THEN Match(log, i, IF LitAt(log, a, <<"?">>) THEN a + 1 ELSE a, <<>>)
        ELSE NoMatch

\* ^!(.*)$ under re.MULTILINE
MatchGeneric(log, i) ==
    LET b == SpanWhile(log, i + 1, {"\n"}, TRUE)
    IN  IF (i = 0 \/ LitAt(log, i - 1, <<"\n">>)) /\ LitAt(log, i, <<"!">>)
        THEN Match(log, i, b, <<Slice(log, i + 1, b)>>)
        ELSE NoMatch

\* a pattern of a caller's own rule: re.compile("Oops")
MatchOops(log, i) ==
    IF LitAt(log, i, LitOops) THEN Match(log, i, i + Len(LitOops), <<>>) ELSE NoMatch

\* another pattern of a caller's own rule: re.compile("LaTeX Error")
MatchLatexError(log, i) ==
    IF LitAt(log, i, LitLatexError) THEN Match(log, i, i + Len(LitLatexError), <<>>)
    ELSE NoMatch

PatternKinds == {"ucs", "pkg", "runaway", "generic", "oops", "latexerror"}

MatchAt(pat, log, i) ==
    CASE pat = "ucs" -> MatchUcs(log, i)
      [] pat = "pkg" -> MatchPkg(log, i)
      [] pat = "runaway" -> MatchRunaway(log, i)
      [] pat = "generic" -> MatchGeneric(log, i)
      [] pat = "oops" -> MatchOops(log, i)
      [] pat = "latexerror" -> MatchLatexError(log, i)

\* the matches pattern.finditer(log) yields from offset pos on, left to right; starts
\* holds the offsets at which the pattern matches
RECURSIVE FindFrom(_, _, _, _)
FindFrom(pat, log, starts, pos) ==
    LET ahead == {i \in starts : i >= pos}
    IN  IF ahead = {} THEN <<>>
        ELSE LET m == MatchAt(pat, log, Min(ahead))
             IN  <<m>> \o FindFrom(pat, log, starts, m.e)

\* pattern.finditer(log)
FindIter(pat, log) ==
    FindFrom(pat, log, {i \in 0..(Len(log) - 1) : MatchAt(pat, log, i) # NoMatch}, 0)

(***************************************************************************)
(* Diagnostics and the rule handlers.  A handler's outcome is the list it  *)
(* returns, or Raised when it raises an Exception.                         *)
(***************************************************************************)
\* models.Diagnostic; file and line keep their default, None
Diagnostic(level, code, message, raw) ==
    [level |-> level, code |-> code, message |-> message, raw |-> raw,
     file |-> "None", line |-> "None"]

Returned(ds) == [ok |-> TRUE, diags |-> ds]

Raised == [ok |-> FALSE, diags |-> <<>>]

HandleUndefinedControlSequence(m) ==
    LET sequence == IF Len(m.g) > 0 THEN m.g[1] ELSE LitUnknown
        sequence_name ==
            IF StartsWith(sequence, <<"\\">>) THEN sequence ELSE <<"\\">> \o sequence
    IN  Returned(<<Diagnostic("error", "undefined-control-sequence",
                              UcsMsgHead \o sequence_name \o UcsMsgTail, Strip(m.text))>>)

\* match.group(1) raises IndexError when the pattern has no group
HandleMissingPackage(m) ==
    IF Len(m.g) < 1 THEN Raised
    ELSE Returned(<<Diagnostic("error", "missing-package",
                               PkgMsgHead \o m.g[1] \o PkgMsgTail, Strip(m.text))>>)

HandleRunawayArgument(m) ==
    Returned(<<Diagnostic("error", "runaway-argument", RunawayMsg, Strip(m.text))>>)

\* the substrings whose presence in the lowercased line silences the generic handler
GenericSkipWordsNoUndefined == {KwFile, KwNotFound, KwRunaway}

GenericSkipWords == {KwUndefined, KwFile, KwNotFound, KwRunaway}

\* the generic handler without its list of words
HandleGenericErrorAlways(m) ==
    Returned(<<Diagnostic("error", "latex-error", GenericMsg, Strip(m.text))>>)

HandleGenericError(m) ==
    IF Len(m.g) < 1 THEN Raised
    ELSE LET raw == Strip(m.text)
         IN  IF \E code \in GenericSkipWords : Contains(Lower(raw), code)
             THEN Returned(<<>>)
             ELSE Returned(<<Diagnostic("error", "latex-error", GenericMsg, raw)>>)

\* a caller's own handler, registered with add_rule as rule k: it returns one
\* diagnostic, and raises on the matches that start at the offsets faults names for k
HandleCustom(m, k, faults) ==
    IF <<k, m.s>> \in faults THEN Raised
    ELSE Returned(<<Diagnostic("info", "custom", <<"rule ", ToString(k)>>, m.text)>>)

HandlerKinds == {"ucs", "pkg", "runaway", "generic", "custom"}

\* handler(match), for the handler of rule k
Handle(h, m, k, faults) ==
    CASE h = "ucs" -> HandleUndefinedControlSequence(m)
      [] h = "pkg" -> HandleMissingPackage(m)
      [] h = "runaway" -> HandleRunawayArgument(m)
      [] h = "generic" -> HandleGenericError(m)
      [] h = "custom" -> HandleCustom(m, k, faults)

(***************************************************************************)
(* The rule registry.  A rule is its pattern, its handler and, as a ghost, *)
(* the number of the add_rule call that registered it.                     *)
(***************************************************************************)
Rule(pat, h, reg) == [pattern |-> pat, handler |-> h, reg |-> reg]

AddRuleFront(rs, pat, h) == <<Rule(pat, h, Len(rs) + 1)>> \o rs

\* self.rules.append((pattern, handler))
AddRuleTo(rs, pat, h) == Append(rs, Rule(pat, h, Len(rs) + 1))

\* LogAnalyzer.__init__: the four default rules, in this order
DefaultRules ==
    AddRuleTo(AddRuleTo(AddRuleTo(AddRuleTo(<<>>, "ucs", "ucs"), "pkg", "pkg"),
                        "runaway", "runaway"),
              "generic", "generic")

(***************************************************************************)
(* analyse.  The accumulator holds the two locals of the method,           *)
(* diagnostics and matched_positions, and a ghost trail with one entry per *)
(* match the loops visit.                                                  *)
(***************************************************************************)
EmptyRun == [diagnostics |-> <<>>, matched_positions |-> {}, trail |-> <<>>]

Visit(k, m, outcome, ds) ==
    [rule |-> k, span |-> <<m.s, m.e>>, outcome |-> outcome, diags |-> ds]

\* the body of the inner loop, for match m of rule k
SkipOnOverlap(acc, span) ==
    \E c \in acc.matched_positions : c[1] < span[2] /\ span[1] < c[2]

AlreadyClaimed(acc, span) == span \in acc.matched_positions

\* the loop body, were the span recorded before the handler is called
VisitMatchClaimFirst(acc, rule, k, m, faults) ==
    IF AlreadyClaimed(acc, <<m.s, m.e>>)
    THEN [acc EXCEPT !.trail = Append(@, Visit(k, m, "skipped", <<>>))]
    ELSE LET r == Handle(rule.handler, m, k, faults)
         IN  [diagnostics |-> acc.diagnostics \o (IF r.ok THEN r.diags ELSE <<>>),
              matched_positions |-> acc.matched_positions \cup {<<m.s, m.e>>},
              trail |-> Append(acc.trail,
                               Visit(k, m, IF r.ok THEN "handled" ELSE "raised",
                                     IF r.ok THEN r.diags ELSE <<>>))]

VisitMatch(acc, rule, k, m, faults) ==
    IF AlreadyClaimed(acc, <<m.s, m.e>>)
    THEN [acc EXCEPT !.trail = Append(@, Visit(k, m, "skipped", <<>>))]
    ELSE LET r == Handle(rule.handler, m, k, faults)
         IN  IF r.ok
             THEN [diagnostics |-> acc.diagnostics \o r.diags,
                   matched_positions |-> acc.matched_positions \cup {<<m.s, m.e>>},
                   trail |-> Append(acc.trail, Visit(k, m, "handled", r.diags))]
             ELSE [acc EXCEPT !.trail = Append(@, Visit(k, m, "raised", <<>>))]

\* the loop over the matches of one rule, left at the first handler that raises
RECURSIVE VisitMatchesBreak(_, _, _, _, _, _)
VisitMatchesBreak(acc, rule, k, ms, n, faults) ==
    IF n > Len(ms) THEN acc
    ELSE LET next == VisitMatch(acc, rule, k, ms[n], faults)
         IN  IF next.trail[Len(next.trail)].outcome = "raised" THEN next
             ELSE VisitMatchesBreak(next, rule, k, ms, n + 1, faults)

\* for match in pattern.finditer(log), from the n-th match on
RECURSIVE VisitMatches(_, _, _, _, _, _)
VisitMatches(acc, rule, k, ms, n, faults) ==
    IF n > Len(ms) THEN acc
    ELSE VisitMatches(VisitMatch(acc, rule, k, ms[n], faults), rule, k, ms, n + 1, faults)

\* for pattern, handler in self.rules, from the k-th rule on
RECURSIVE VisitRules(_, _, _, _, _)
VisitRules(acc, rs, k, log, faults) ==
    IF k > Len(rs) THEN acc
    ELSE VisitRules(VisitMatches(acc, rs[k], k, FindIter(rs[k].pattern, log), 1, faults),
                    rs, k + 1, log, faults)

\* LogAnalyzer.analyse(log), with the faults of the callers' handlers
AnalyseRun(rs, log, faults) == VisitRules(EmptyRun, rs, 1, log, faults)

\* analyse_log(log): the module's analyzer holds the default rules
AnalyseLog(log) == AnalyseRun(DefaultRules, log, {}).diagnostics

(***************************************************************************)
(* The logs of the model: up to MaxSegs pieces, each one of Segments.      *)
(* The pieces are banner lines of the three specific errors, a line marker *)
(* line, generic banner lines, and two pieces that end without a newline,  *)
(* so that a trigger can sit inside another trigger's line.                *)
(***************************************************************************)
MaxSegs == 3

SegUcsBanner ==
    <<"!"," ","U","n","d","e","f","i","n","e","d"," ","c","o","n","t","r","o","l"," ","s",
      "e","q","u","e","n","c","e",".","\n">>

SegLineFoo ==
    <<"l",".","5"," ","\\","f","o","o","\n">>

SegPkgBanner ==
    <<"!"," ","L","a","T","e","X"," ","E","r","r","o","r",":"," ","F","i","l","e"," ",
      Backtick,"a",".","s","t","y","'"," ","n","o","t"," ","f","o","u","n","d",".","\n">>

SegRunawayQ ==
    <<"R","u","n","a","w","a","y"," ","a","r","g","u","m","e","n","t","?","\n">>

SegRunawayBare ==
    <<"R","u","n","a","w","a","y"," ","a","r","g","u","m","e","n","t">>

SegOops ==
    <<"!"," ","O","o","p","s"," ","\n">>

SegFileEnded ==
    <<"!"," ","F","i","l","e"," ","e","n","d","e","d","\n">>

SegUcsInline ==
    <<"U","n","d","e","f","i","n","e","d"," ","c","o","n","t","r","o","l"," ","s","e","q",
      "u","e","n","c","e"," ">>

SegOopsTwice ==
    <<"!"," ","O","o","p","s"," ","O","o","p","s","\n">>

Segments ==
    {SegUcsBanner, SegLineFoo, SegPkgBanner, SegRunawayQ, SegRunawayBare, SegOops,
     SegFileEnded, SegUcsInline}

\* the logs analysed by analyzers that hold callers' rules: up to MaxRuleSegs pieces
MaxRuleSegs == 2

RuleSegments == {SegOopsTwice, SegPkgBanner}

RECURSIVE Join(_)
Join(segs) == IF segs = <<>> THEN <<>> ELSE Head(segs) \o Join(Tail(segs))

SegSeqs(S, n) == UNION {[1..k -> S] : k \in 0..n}

(***************************************************************************)
(* The compilation orchestrator, core.compile_tex.  What lies outside the  *)
(* program is the world w of one call: the state of the input path, the    *)
(* engines on PATH, whether the expected output file is on disk when the   *)
(* call looks, and what mkdir and subprocess.run do.                       *)
(***************************************************************************)
None == <<>>

Some(x) == <<x>>

Engines == {"tectonic", "latexmk"}

\* EngineConfig.name is not checked at run time: a third name can reach compile_tex
EngineNames == Engines \cup {"xelatex"}

TexPath == "input/test.tex"

PdfPath == "output/test.pdf"

DigitSeq == <<"0","1","2","3","4","5","6","7","8","9">>

\* str(n), n >= 0
RECURSIVE Decimal(_)
Decimal(n) ==
    IF n < 10 THEN <<DigitSeq[n + 1]>> ELSE Decimal(n \div 10) \o <<DigitSeq[(n % 10) + 1]>>

\* f"{timeout}", timeout an Optional[int]
TimeoutText(timeout) == IF timeout = None THEN <<"N","o","n","e">> ELSE Decimal(timeout[1])

KwTimedOut ==
    <<"t","i","m","e","d"," ","o","u","t">>

TimeoutLogHead ==
    <<"C","o","m","p","i","l","a","t","i","o","n"," ","t","i","m","e","d"," ","o","u","t",
      " ","a","f","t","e","r"," ">>

TimeoutLogTail ==
    <<" ","s","e","c","o","n","d","s">>

\* f"Compilation timed out after {timeout} seconds"
TimeoutNotice(timeout) == TimeoutLogHead \o TimeoutText(timeout) \o TimeoutLogTail

\* shutil.which(name): the events of a call list every look at the world
FindEngineExecutable(w, name) == IF name \in w.onPath THEN Some(name) ELSE None

Returns(rc, lg, events) ==
    [kind |-> "returned", rc |-> rc, log |-> lg, error |-> <<>>, events |-> events]

Raises(kind, error, events) ==
    [kind |-> kind, rc |-> 0, log |-> <<>>, error |-> error, events |-> events]

\* the runner once its executable is found: mkdir, then subprocess.run
RunFound(w, name, looked) ==
    IF w.mkdir # "ok"
    THEN Raises("Exception", <<"mkdir: ", w.mkdir>>, looked \o <<<<"mkdir">>>>)
    ELSE LET events == looked \o <<<<"mkdir">>, <<"run", name>>>>
         IN  CASE w.proc.kind = "exit" -> Returns(w.proc.rc, w.proc.out, events)
               [] w.proc.kind = "TimeoutExpired" ->
                      Returns(1, TimeoutNotice(w.timeout), events)
               [] w.proc.kind = "FileNotFoundError" ->
                      Raises("FileNotFoundError", <<"No such file or directory">>, events)
               [] OTHER -> Raises("Exception", <<w.proc.kind>>, events)

\* a runner that, when its engine is missing, looks for the other engine and runs it
RunEngineWithFallback(w, name) ==
    LET other == CHOOSE e \in Engines : e # name
    IN  IF FindEngineExecutable(w, name) # None
        THEN RunFound(w, name, <<<<"which", name>>>>)
        ELSE IF FindEngineExecutable(w, other) # None
        THEN RunFound(w, other, <<<<"which", name>>, <<"which", other>>>>)
        ELSE Raises("FileNotFoundError", <<name, " executable not found on PATH">>,
                    <<<<"which", name>>, <<"which", other>>>>)

\* _run_tectonic and _run_latexmk, which differ in the name and the command line only
RunEngine(w, name) ==
    IF FindEngineExecutable(w, name) = None
    THEN Raises("FileNotFoundError", <<name, " executable not found on PATH">>,
                <<<<"which", name>>>>)
    ELSE RunFound(w, name, <<<<"which", name>>>>)

RunTectonic(w) == RunEngine(w, "tectonic")

RunLatexmk(w) == RunEngine(w, "latexmk")

\* models.CompileResult, with the defaults of its fields
CompileResult(success, engine, diagnostics, lg, return_code, pdf_path, workdir) ==
    [success |-> success, pdf_path |-> pdf_path, log |-> lg, diagnostics |-> diagnostics,
     engine |-> engine, return_code |-> return_code, workdir |-> workdir]

Failure(engine, lg, return_code, code, message, raw) ==
    CompileResult(FALSE, engine, <<Diagnostic("error", code, message, raw)>>, lg,
                  return_code, None, None)

\* the two checks of the input path, in the order of the code
PreflightIsFileFirst(w) ==
    IF w.tex # "file" THEN "invalid-input" ELSE "ok"

Preflight(w) ==
    IF w.tex = "denied" THEN "PermissionError"
    ELSE IF w.tex = "missing" THEN "file-not-found"
    ELSE IF w.tex # "file" THEN "invalid-input"
    ELSE "ok"

\* "timed out" in log.lower()
TimedOutCaseSensitive(lg) == Contains(lg, KwTimedOut)

TimedOut(lg) == Contains(Lower(lg), KwTimedOut)

\* the number of characters of the log the fallback diagnostic keeps
FallbackWindow == 500

\* log[-500:] if len(log) > 500 else log
FallbackRawWholeLog(lg) == lg

FallbackRaw(lg) ==
    IF Len(lg) > FallbackWindow THEN SubSeq(lg, Len(lg) - FallbackWindow + 1, Len(lg)) ELSE lg

\* return_code == 0 and pdf_path.exists()
SucceededOnExitCode(w, return_code) == return_code = 0

Succeeded(w, return_code) == return_code = 0 /\ w.pdf

\* the part of compile_tex after the runner has returned
Conclude(w, ran) ==
    IF TimedOut(ran.log)
    THEN Failure(w.engine, ran.log, Some(ran.rc), "timeout",
                 TimeoutNotice(w.timeout), ran.log)
    ELSE LET found == AnalyseLog(ran.log)
             success == Succeeded(w, ran.rc)
             diagnostics ==
                 IF ~success /\ found = <<>>
                 THEN <<Diagnostic("error", "compilation-failed",
                                   <<"Compilation failed. Check the log for details.">>,
                                   FallbackRaw(ran.log))>>
                 ELSE found
         IN  CompileResult(success, w.engine, diagnostics, ran.log, Some(ran.rc),
                           IF w.pdf THEN Some(PdfPath) ELSE None, Some("input"))

\* what _run_tectonic or _run_latexmk does in this call; no runner for other names
Runner(w) ==
    CASE w.engine = "tectonic" -> RunTectonic(w)
      [] w.engine = "latexmk" -> RunLatexmk(w)
      [] OTHER -> Raises("unsupported", <<>>, <<>>)

\* compile_tex(tex_path, outdir, engine, timeout) in the world w: the result it
\* returns and, as a ghost, the calls it made out of the program
CompileTexIn(w) ==
    LET check == Preflight(w)
        ran == Runner(w)
    IN  IF check = "file-not-found"
        THEN [result |-> Failure(w.engine, <<>>, None, check,
                                 <<"Input file not found: ", TexPath>>,
                                 <<"File not found: ", TexPath>>),
              events |-> <<>>]
        ELSE IF check = "invalid-input"
        THEN [result |-> Failure(w.engine, <<>>, None, check,
                                 <<"Input path is not a file: ", TexPath>>,
                                 <<"Not a file: ", TexPath>>),
              events |-> <<>>]
        ELSE [events |-> ran.events,
              result |->
                  CASE ran.kind = "unsupported" ->
                           Failure(w.engine, <<>>, None, "unsupported-engine",
                                   <<"Unsupported engine: ", w.engine>>,
                                   <<"Engine ", w.engine, " is not supported">>)
                    [] ran.kind = "FileNotFoundError" ->
                           Failure(w.engine, ran.error, None, "engine-not-found",
                                   <<"LaTeX engine '", w.engine, "' not found on PATH">>,
                                   ran.error)
                    [] ran.kind = "Exception" ->
                           Failure(w.engine, ran.error, None, "compilation-error",
                                   <<"Unexpected error during compilation: ">> \o ran.error,
                                   ran.error)
                    [] ran.kind = "returned" -> Conclude(w, ran)]

\* the exception that leaves compile_tex in the world w, or None: tex_path.exists()
\* and pdf_path.exists() stand outside the try blocks and raise what stat() raises,
\* a missing path apart
Escapes(w) ==
    IF Preflight(w) = "PermissionError" THEN Some("PermissionError")
    ELSE IF /\ Preflight(w) = "ok"
            /\ Runner(w).kind = "returned"
            /\ ~TimedOut(Runner(w).log)
            /\ w.stat = "PermissionError"
         THEN Some("PermissionError")
         ELSE None

\* a call of compile_tex in the world w: it returns a result or lets an exception out
CompileTexCall(w) ==
    [escaped |-> Escapes(w),
     result |-> IF Escapes(w) = None THEN Some(CompileTexIn(w).result) ELSE None,
     events |-> IF Preflight(w) = "PermissionError" THEN <<>> ELSE CompileTexIn(w).events]

(***************************************************************************)
(* The worlds of the model.  The logs an engine writes are one of          *)
(* LogBodies, alone or after PadLen characters of other output, so that    *)
(* logs shorter and longer than the fallback window are there.             *)
(***************************************************************************)
PadLen == 498

Pad == [k \in 1..PadLen |-> "x"]

BodyOk ==
    <<"o","k","\n">>

BodyNo ==
    <<"n","o">>

BodyTimedOutMixed ==
    <<"C","o","n","n","e","c","t","i","o","n"," ","T","i","m","e","d"," ","O","u","t","\n">>

LogBodies ==
    {<<>>, BodyNo, BodyOk, SegOops, SegUcsBanner \o SegLineFoo, BodyTimedOutMixed,
     BodyTimedOutMixed \o SegOops}

CompileLogs == {pre \o body : pre \in {<<>>, Pad}, body \in LogBodies}

ExitCodes == {0, 1}

\* the timeout argument: None, or a number of seconds
Timeouts == {None, Some(5)}

\* the input path: missing, a directory, a regular file, or in a directory that the
\* user may not search, so that stat() raises PermissionError
TexStates == {"missing", "directory", "file", "denied"}

\* stat() on the expected output path: it answers, or raises PermissionError
StatOutcomes == {"ok", "PermissionError"}

NotRun == [kind |-> "unreached", rc |-> 0, out |-> <<>>]

\* what subprocess.run can do: exit, overrun the timeout if there is one, or raise
ProcOutcomes(timeout) ==
    {[kind |-> "exit", rc |-> rc, out |-> lg] : rc \in ExitCodes, lg \in CompileLogs}
    \cup {[kind |-> k, rc |-> 0, out |-> <<>>] : k \in {"FileNotFoundError", "PermissionError"}}
    \cup (IF timeout = None THEN {}
          ELSE {[kind |-> "TimeoutExpired", rc |-> 0, out |-> <<>>]})

\* what mkdir and subprocess.run do, for a call that reaches them
RunnerIO(timeout) ==
    {[mkdir |-> "PermissionError", proc |-> NotRun]}
    \cup {[mkdir |-> "ok", proc |-> p] : p \in ProcOutcomes(timeout)}

NoWorld ==
    [tex |-> "unreached", engine |-> "unreached", timeout |-> None, onPath |-> {},
     pdf |-> FALSE, stat |-> "ok", mkdir |-> "unreached", proc |-> NotRun]

\* no run of the CLI yet
NoCli == [json |-> FALSE, engine |-> None, exit |-> None, printed |-> "nothing"]

(***************************************************************************)
(* The analyzer as a state machine: a LogAnalyzer is constructed, callers  *)
(* add rules to it, and analyse runs on a log.                             *)
(***************************************************************************)
VARIABLES
    rules,      \* LogAnalyzer.rules
    phase,      \* "idle" until analyse has run, then "analysed"
    log,        \* the argument of analyse
    faults,     \* <<k, offset>>: the handler of rule k raises on the match starting there
    run,        \* what analyse returned (diagnostics) and its ghost trail
    calls,      \* ghost: the analyse calls made one after another on this analyzer
    world,      \* the arguments of compile_tex and what it met outside the program
    result,     \* None, or what compile_tex returned
    escaped,    \* None, or the exception compile_tex let out
    events,     \* ghost: the calls compile_tex made out of the program
    cli         \* the command line of a run of the CLI, and how the run ended

vars == <<rules, phase, log, faults, run, calls, world, result, escaped, events, cli>>

analyzerVars == <<rules, phase, log, faults, run, calls>>

compileVars == <<world, result, escaped, events, cli>>

\* the rules callers add: at most MaxAdded, each one of CustomRules
MaxAdded == 2

\* the matches of one run on which callers' handlers raise: at most MaxFaults
MaxFaults == 1

\* (pattern, handler): two patterns of the callers' own with a handler of their own,
\* the generic pattern again, and a pattern without groups given to a default handler
CustomRules ==
    {<<"oops", "custom">>, <<"latexerror", "custom">>, <<"generic", "custom">>,
     <<"oops", "pkg">>}

Init ==
    /\ rules = DefaultRules
    /\ phase = "idle"
    /\ log = <<>>
    /\ faults = {}
    /\ run = EmptyRun
    /\ calls = <<>>
    /\ world = NoWorld
    /\ result = None
    /\ escaped = None
    /\ events = <<>>
    /\ cli = NoCli

\* analyzer.add_rule(pattern, handler)
AddRule ==
    /\ phase = "idle"
    /\ Len(rules) < Len(DefaultRules) + MaxAdded
    /\ \E r \in CustomRules : rules' = AddRuleTo(rules, r[1], r[2])
    /\ UNCHANGED <<phase, log, faults, run, calls, compileVars>>

\* the matches on which a caller's handler can be made to raise
FaultSites(rs, lg) ==
    UNION {{<<k, m.s>> : m \in Range(FindIter(rs[k].pattern, lg))} :
           k \in {j \in 1..Len(rs) : rs[j].handler = "custom"}}

\* the subsets of S with at most n elements
SubsetsUpTo(S, n) ==
    {{f[i] : i \in 1..n} \cap S : f \in [1..n -> S \cup {<<0, 0>>}]}

\* analyzer.analyse(log), for a log made of the pieces segs
AnalyseOf(segs) ==
    LET lg == Join(segs)
    IN  /\ phase = "idle"
        /\ log' = lg
        /\ \E F \in SubsetsUpTo(FaultSites(rules, lg), MaxFaults) :
             /\ faults' = F
             /\ run' = AnalyseRun(rules, lg, F)
        /\ phase' = "analysed"
        /\ UNCHANGED <<rules, calls, compileVars>>

Analyse == \E segs \in SegSeqs(Segments, MaxSegs) : AnalyseOf(segs)

AnalyseWithRules == \E segs \in SegSeqs(RuleSegments, MaxRuleSegs) : AnalyseOf(segs)

\* an analyzer with the default rules analyses a log
Next == Analyse

Spec == Init /\ [][Next]_vars

\* callers add rules to an analyzer, which then analyses a log
NextRules == AddRule \/ AnalyseWithRules

SpecRules == Init /\ [][NextRules]_vars

\* compile_tex(tex_path, outdir, engine, timeout), called once
CompileTex ==
    /\ result = None
    /\ escaped = None
    /\ \E tex \in TexStates, engine \in EngineNames, timeout \in Timeouts,
          onPath \in SUBSET Engines, pdf \in BOOLEAN, stat \in StatOutcomes :
         \E io \in IF tex = "file" /\ engine \in onPath THEN RunnerIO(timeout)
                    ELSE {[mkdir |-> "unreached", proc |-> NotRun]} :
             \E w \in {[tex |-> tex, engine |-> engine, timeout |-> timeout,
                         onPath |-> onPath, pdf |-> pdf, stat |-> stat, mkdir |-> io.mkdir,
                         proc |-> io.proc]} :
                 \E out \in {CompileTexCall(w)} :
                     /\ world' = w
                     /\ result' = out.result
                     /\ escaped' = out.escaped
                     /\ events' = out.events
    /\ UNCHANGED <<analyzerVars, cli>>

NextCompile == CompileTex

SpecCompile == Init /\ [][NextCompile]_vars

(***************************************************************************)
(* One analyzer used for several analyses in a row.  What a call leaves    *)
(* behind is the variable run; the next call starts from fresh locals.     *)
(***************************************************************************)
\* the analyses made in a row on one analyzer: at most MaxCalls
MaxCalls == 3

\* the logs given to them
AgainLogs ==
    {SegOopsTwice, SegPkgBanner \o SegOops, SegUcsBanner \o SegLineFoo \o SegOopsTwice}

\* the locals of a call, were they kept from the call before
StartOfRunKept(prev) == prev

\* diagnostics = [], matched_positions = set(): whatever the call before left
StartOfRun(prev) == EmptyRun

\* analyzer.analyse(lg) after earlier calls; the callers' handlers do not raise at will
AnalyseAgain ==
    /\ Len(calls) < MaxCalls
    /\ \E lg \in AgainLogs :
         /\ log' = lg
         /\ faults' = {}
         /\ run' = VisitRules(StartOfRun(run), rules, 1, lg, {})
         /\ calls' = Append(calls, [log |-> lg, registry |-> rules,
                                    diagnostics |-> run'.diagnostics])
    /\ phase' = "analysed"
    /\ UNCHANGED <<rules, compileVars>>

\* callers add rules to an analyzer, which then analyses one log after another
NextAgain == AddRule \/ AnalyseAgain

SpecAgain == Init /\ [][NextAgain]_vars

(***************************************************************************)
(* The command line: main resolves the input path, picks the engine, calls *)
(* compile_tex and leaves with an exit code.                               *)
(***************************************************************************)
\* the values given to --engine; None when the option is absent
EngineOptions == {None, Some("tectonic"), Some("latexmk"), Some("LATEXMK"), Some("xelatex")}

\* engine.lower()
LowerName(name) == IF name = "LATEXMK" THEN "latexmk" ELSE name

\* _get_default_engine(): tectonic if it is on PATH, else latexmk if it is, else tectonic
GetDefaultEngine(onPath) ==
    IF FindEngineExecutable([onPath |-> onPath], "tectonic") # None THEN "tectonic"
    ELSE IF FindEngineExecutable([onPath |-> onPath], "latexmk") # None THEN "latexmk"
    ELSE "tectonic"

\* the lookups _get_default_engine makes
DefaultEngineLookups(onPath) ==
    IF "tectonic" \in onPath THEN <<<<"which", "tectonic">>>>
    ELSE <<<<"which", "tectonic">>, <<"which", "latexmk">>>>

\* engine_name of main
EngineName(option, onPath) ==
    IF option = None THEN GetDefaultEngine(onPath) ELSE LowerName(option[1])

\* how a run ends: the exit code, what was printed, and what compile_tex did if called
Exit(code, printed, call, lookups) ==
    [exit |-> Some(code), printed |-> printed,
     result |-> call.result, escaped |-> call.escaped, events |-> lookups \o call.events]

NoCall == [result |-> None, escaped |-> None, events |-> <<>>]

\* the end of main after compile_tex returned r
ExitAfterCompile(json, r) ==
    IF json THEN (IF r.success THEN 0 ELSE 2)
    ELSE IF r.success /\ r.pdf_path # None THEN 0 ELSE 2

\* main(input_file, outdir, engine, json_output, timeout) in the world w, where
\* w.engine is engine_name; an exception that nothing catches ends the process
\* with a traceback and exit code 1
MainIn(w, option, json) ==
    LET lookups == IF option = None THEN DefaultEngineLookups(w.onPath) ELSE <<>>
        call == CompileTexCall(w)
    IN  IF w.tex = "denied" THEN Exit(1, "traceback", NoCall, <<>>)
        ELSE IF w.tex = "missing"
        THEN Exit(1, IF json THEN "json file-not-found" ELSE "error", NoCall, <<>>)
        ELSE IF w.engine \notin {"tectonic", "latexmk"}
        THEN Exit(1, IF json THEN "json invalid-engine" ELSE "error", NoCall, lookups)
        ELSE IF call.escaped # None THEN Exit(1, "traceback", call, lookups)
        ELSE Exit(ExitAfterCompile(json, call.result[1]),
                  IF json THEN "json result"
                  ELSE IF ExitAfterCompile(json, call.result[1]) = 0 THEN "ok" ELSE "failed",
                  call, lookups)

\* the logs of the engine in the runs of the CLI
CliLogs == {BodyOk, SegOops, BodyTimedOutMixed}

\* what mkdir and subprocess.run do in the runs of the CLI
CliIO ==
    {[mkdir |-> "PermissionError", proc |-> NotRun],
     [mkdir |-> "ok", proc |-> [kind |-> "TimeoutExpired", rc |-> 0, out |-> <<>>]]}
    \cup {[mkdir |-> "ok", proc |-> [kind |-> "exit", rc |-> rc, out |-> lg]] :
          rc \in ExitCodes, lg \in CliLogs}

\* one run of the command line
Main ==
    /\ cli.exit = None
    /\ result = None
    /\ escaped = None
    /\ \E tex \in TexStates, option \in EngineOptions, json \in BOOLEAN,
          timeout \in Timeouts \ {None}, onPath \in SUBSET Engines,
          pdf \in BOOLEAN, stat \in StatOutcomes :
         \E name \in {EngineName(option, onPath)} :
             \E io \in IF tex = "file" /\ name \in onPath THEN CliIO
                        ELSE {[mkdir |-> "unreached", proc |-> NotRun]} :
                 \E w \in {[tex |-> tex, engine |-> name, timeout |-> timeout,
                             onPath |-> onPath, pdf |-> pdf, stat |-> stat,
                             mkdir |-> io.mkdir, proc |-> io.proc]} :
                     \E out \in {MainIn(w, option, json)} :
                         /\ world' = w
                         /\ result' = out.result
                         /\ escaped' = out.escaped
                         /\ events' = out.events
                         /\ cli' = [json |-> json, engine |-> option,
                                    exit |-> out.exit, printed |-> out.printed]
    /\ UNCHANGED analyzerVars

NextCli == Main

SpecCli == Init /\ [][NextCli]_vars

(***************************************************************************)
(* The triggers of the three specific rules, stated on the text of the     *)
(* log: the offsets where one starts, and the name it carries.             *)
(***************************************************************************)
Offsets(lg) == 0..(Len(lg) - 1)

\* the offset where the line holding offset i starts, and where it ends
LineStart(lg, i) == Max({0} \cup {j \in 1..i : lg[j] = "\n"})

LineEnd(lg, i) == Min({Len(lg)} \cup {j \in i..(Len(lg) - 1) : lg[j + 1] = "\n"})

\* the command name of the trigger that starts at i: "Undefined control sequence" on
\* one line and, on the next line, l.<N>, blanks and \<name>; <<>> if none starts at i
UcsTriggerName(lg, i) ==
    LET b == LineEnd(lg, i)
        d == b + 1 + Len(LitLineMarker)
        e == SpanWhile(lg, d, Digits, FALSE)
        f == SpanWhile(lg, e, {" ", "\t"}, FALSE)
        k == SpanWhile(lg, f + 1, Letters, FALSE)
    IN  IF /\ LitAt(lg, i, LitUndefined)
           /\ LitAt(lg, b + 1, LitLineMarker)
           /\ e > d
           /\ f > e
           /\ LitAt(lg, f, <<"\\">>)
           /\ k > f + 1
        THEN Slice(lg, f, k)
        ELSE <<>>

\* the file name X.sty of the trigger that starts at i: LaTeX Error: File, X.sty
\* between the grave accent and the apostrophe, and not found; <<>> if none starts at i
PkgTriggerName(lg, i) ==
    LET a == i + Len(LitPkgOpen)
        quotes == {j \in a..(Len(lg) - 1) : lg[j + 1] = "'"}
        b == Min(quotes)
    IN  IF /\ LitAt(lg, i, LitPkgOpen)
           /\ quotes # {}
           /\ LitAt(lg, b, LitPkgClose)
           /\ b - a > Len(LitSty)
           /\ Slice(lg, b - Len(LitSty), b) = LitSty
        THEN Slice(lg, a, b)
        ELSE <<>>

UcsTriggers(lg) == {i \in Offsets(lg) : UcsTriggerName(lg, i) # <<>>}

PkgTriggers(lg) == {i \in Offsets(lg) : PkgTriggerName(lg, i) # <<>>}

RunawayTriggers(lg) == {i \in Offsets(lg) : LitAt(lg, i, LitRunaway)}

Visits == {run.trail[n] : n \in 1..Len(run.trail)}

\* a visit of rule k that covers offset i handed its match to the handler, and the one
\* diagnostic it got has this code and this name in its message
Yields(k, i, code, name) ==
    \E v \in Visits :
        /\ v.rule = k
        /\ v.span[1] <= i /\ i < v.span[2]
        /\ v.outcome = "handled"
        /\ Len(v.diags) = 1
        /\ v.diags[1].code = code
        /\ Contains(v.diags[1].message, name)
        /\ \E n \in 1..Len(run.diagnostics) : run.diagnostics[n] = v.diags[1]

\* C1: with the default rules, every trigger of rule 1, 2 or 3 in the log yields a
\* diagnostic with the rule's code (and the command name, or X.sty, in its message),
\* and no match of these rules is skipped or left without its diagnostic.
C1_SpecificRulesReport ==
    phase = "analysed" =>
        /\ \A i \in UcsTriggers(log) :
               Yields(1, i, "undefined-control-sequence", UcsTriggerName(log, i))
        /\ \A i \in PkgTriggers(log) : Yields(2, i, "missing-package", PkgTriggerName(log, i))
        /\ \A i \in RunawayTriggers(log) : Yields(3, i, "runaway-argument", <<>>)
        /\ \A v \in Visits : v.rule \in 1..3 => v.outcome = "handled" /\ Len(v.diags) = 1

\* a match of rule 2 lies inside a match of rule 1, and both were reported
C1_Witness ==
    /\ phase = "analysed"
    /\ rules = DefaultRules
    /\ \E v \in Visits, w \in Visits :
        /\ v.rule = 1 /\ w.rule = 2
        /\ v.span[1] < w.span[1] /\ w.span[2] < v.span[2]
        /\ v.span[1] \in UcsTriggers(log) /\ w.span[1] \in PkgTriggers(log)
        /\ Len(v.diags) = 1 /\ Len(w.diags) = 1

CodeCount(code) ==
    Cardinality({n \in 1..Len(run.diagnostics) : run.diagnostics[n].code = code})

\* the visits of the generic rule to the line that holds offset i
BannerVisits(i) == {v \in Visits : v.rule = 4 /\ v.span[1] = LineStart(log, i)}

OneOfEach == Cardinality(UcsTriggers(log)) = 1 /\ Cardinality(PkgTriggers(log)) = 1

\* C2: a log with one undefined-control-sequence trigger and one missing-package
\* trigger gives each of the two codes exactly once, and the generic rule reports
\* neither of their banner lines.
C2_BothOnceNoGeneric ==
    (phase = "analysed" /\ OneOfEach) =>
        /\ CodeCount("undefined-control-sequence") = 1
        /\ CodeCount("missing-package") = 1
        /\ \A i \in UcsTriggers(log) \cup PkgTriggers(log) :
               \A v \in BannerVisits(i) : v.diags = <<>>

\* both triggers are there, each on a banner line the generic rule visited
C2_Witness ==
    /\ phase = "analysed"
    /\ rules = DefaultRules
    /\ OneOfEach
    /\ \A i \in UcsTriggers(log) \cup PkgTriggers(log) :
           \E v \in BannerVisits(i) : v.outcome = "handled"
    /\ \E i \in UcsTriggers(log), j \in PkgTriggers(log) : LineStart(log, i) # LineStart(log, j)

\* C5: with the default rules, the raw field of every diagnostic analyse returns is a
\* contiguous piece of the log, with no whitespace at either end.
C5_RawIsTrimmedSubstring ==
    phase = "analysed" =>
        \A n \in 1..Len(run.diagnostics) :
            LET raw == run.diagnostics[n].raw
            IN  /\ Contains(log, raw)
                /\ raw # <<>> => raw[1] \notin Whitespace /\ raw[Len(raw)] \notin Whitespace

\* a diagnostic whose match ended in whitespace, which its raw field lacks
C5_Witness ==
    /\ phase = "analysed"
    /\ rules = DefaultRules
    /\ \E v \in Visits :
        /\ Len(v.diags) = 1
        /\ Slice(log, v.span[1], v.span[2])[v.span[2] - v.span[1]] \in Whitespace
        /\ Len(v.diags[1].raw) < v.span[2] - v.span[1]
        /\ \E n \in 1..Len(run.diagnostics) : run.diagnostics[n] = v.diags[1]

(***************************************************************************)
(* Claims about analyzers that hold callers' rules.                        *)
(***************************************************************************)
\* the run of analyse on the same rules and log in which no caller's handler raises
Reference == AnalyseRun(rules, log, {})

Trail(n) == run.trail[n]

\* an earlier visit than the n-th, to the same span, whose handler raised
FailedBefore(n) ==
    \E j \in 1..(n - 1) : Trail(j).outcome = "raised" /\ Trail(j).span = Trail(n).span

RECURSIVE Flatten(_)
Flatten(parts) == IF parts = <<>> THEN <<>> ELSE Head(parts) \o Flatten(Tail(parts))

TrailDiags(tr) == Flatten([n \in 1..Len(tr) |-> tr[n].diags])

Origins == Flatten([n \in 1..Len(run.trail) |->
                       [d \in 1..Len(Trail(n).diags) |-> <<Trail(n).rule, Trail(n).span[1]>>]])

Concluded == result # None

Result == result[1]

\* the runner was reached and gave back an exit code, a log and the output path
RunnerReturned ==
    /\ Concluded
    /\ \E n \in 1..Len(events) : events[n] = <<"run", world.engine>>
    /\ world.proc.kind \in {"exit", "TimeoutExpired"}

ReturnedCode == IF world.proc.kind = "exit" THEN world.proc.rc ELSE 1

ReturnedLog ==
    IF world.proc.kind = "exit" THEN world.proc.out
    ELSE TimeoutLogHead \o TimeoutText(world.timeout) \o TimeoutLogTail

\* the text holds "timed out", in any mix of upper and lower case
MentionsTimedOut(lg) ==
    \E i \in 0..(Len(lg) - Len(KwTimedOut)) :
        \A k \in 1..Len(KwTimedOut) : LowerChar(lg[i + k]) = KwTimedOut[k]

\* C6 as stated: whenever the runner returned, success is true exactly when the exit
\* code is 0 and the expected output file is on disk.
C6_SuccessIffZeroAndPdf ==
    RunnerReturned => (Result.success <=> (ReturnedCode = 0 /\ world.pdf))

\* C6 as amended: the same, for the logs that do not hold "timed out".
C6_SuccessIffZeroAndPdfUnlessTimedOut ==
    (RunnerReturned /\ ~MentionsTimedOut(ReturnedLog)) =>
        (Result.success <=> (ReturnedCode = 0 /\ world.pdf))

\* exit code 0, no word of a timeout, no output file: not a success
C6_Witness ==
    /\ RunnerReturned
    /\ ~MentionsTimedOut(ReturnedLog)
    /\ ReturnedCode = 0
    /\ ~world.pdf
    /\ ~Result.success

\* C7: a result with success = false carries a diagnostic; when the engine ran, the
\* attempt failed and the analyzer found nothing, it carries one, compilation-failed,
\* whose raw is the last 500 characters of the log, or the whole of a shorter log.
C7_FailureCarriesDiagnostic ==
    Concluded =>
        /\ ~Result.success => Len(Result.diagnostics) >= 1
        /\ (/\ RunnerReturned
            /\ ~MentionsTimedOut(ReturnedLog)
            /\ ~Result.success
            /\ AnalyseRun(DefaultRules, ReturnedLog, {}).diagnostics = <<>>) =>
               \E lg \in {ReturnedLog} :
                   /\ Len(Result.diagnostics) = 1
                   /\ Result.diagnostics[1].code = "compilation-failed"
                   /\ Len(Result.diagnostics[1].raw) = IF Len(lg) > 500 THEN 500 ELSE Len(lg)
                   /\ \A k \in 1..Len(Result.diagnostics[1].raw) :
                          Result.diagnostics[1].raw[k]
                              = lg[Len(lg) - Len(Result.diagnostics[1].raw) + k]

\* a failed run whose log is longer than 500 characters and holds no finding
C7_Witness ==
    /\ RunnerReturned
    /\ ~Result.success
    /\ Len(ReturnedLog) > 500
    /\ Len(Result.diagnostics) = 1
    /\ Result.diagnostics[1].code = "compilation-failed"
    /\ Len(Result.diagnostics[1].raw) = 500

\* C8: when the log the runner returned holds "timed out" in any case, the result
\* is a failure with one diagnostic, timeout, whatever the exit code, the rest of
\* the log and the output file.
C8_TimedOutLogIsTimeout ==
    (RunnerReturned /\ MentionsTimedOut(ReturnedLog)) =>
        /\ ~Result.success
        /\ Len(Result.diagnostics) = 1
        /\ Result.diagnostics[1].code = "timeout"

\* exit code 0, the output file on disk, and a log with "Timed Out" and an error
\* banner the analyzer would report
C8_Witness ==
    /\ RunnerReturned
    /\ world.proc.kind = "exit" /\ world.proc.rc = 0 /\ world.pdf
    /\ MentionsTimedOut(world.proc.out) /\ ~Contains(world.proc.out, KwTimedOut)
    /\ AnalyseRun(DefaultRules, world.proc.out, {}).diagnostics # <<>>
    /\ ~Result.success
    /\ Len(Result.diagnostics) = 1

\* C9: an input path that is missing, or is no regular file, gives a failure without
\* pdf_path, with the one diagnostic file-not-found or invalid-input, and no lookup
\* of an executable, no mkdir and no subprocess.
C9_BadInputFailsFast ==
    (Concluded /\ world.tex # "file") =>
        /\ ~Result.success
        /\ Result.pdf_path = None
        /\ Len(Result.diagnostics) = 1
        /\ Result.diagnostics[1].code
               = (IF world.tex = "missing" THEN "file-not-found" ELSE "invalid-input")
        /\ events = <<>>

\* the input path is a directory, the engine is on PATH and an output file is on disk
C9_Witness ==
    /\ Concluded
    /\ world.tex = "directory"
    /\ world.engine \in world.onPath
    /\ world.pdf
    /\ Result.diagnostics[1].code = "invalid-input"

\* C10: when the executable of the requested engine is not on PATH, the result is a
\* failure with engine-not-found, no subprocess is started and the other engine is
\* neither looked for nor run.
C10_MissingEngineNoFallback ==
    (Concluded /\ world.tex = "file" /\ world.engine \in Engines \ world.onPath) =>
        /\ ~Result.success
        /\ Len(Result.diagnostics) = 1
        /\ Result.diagnostics[1].code = "engine-not-found"
        /\ \A n \in 1..Len(events) : events[n] = <<"which", world.engine>>

\* the requested engine is missing and the other one is on PATH
C10_Witness ==
    /\ Concluded
    /\ world.tex = "file"
    /\ world.engine \in Engines \ world.onPath
    /\ world.onPath # {}
    /\ Result.diagnostics[1].code = "engine-not-found"
    /\ events = <<<<"which", world.engine>>>>

\* C11 as stated: in every result of compile_tex, pdf_path is present exactly when
\* the expected output file is on disk after the run.
C11_PdfPathIffFileExists ==
    Concluded => ((Result.pdf_path # None) <=> world.pdf)

\* C12: two analyses of the same log on one analyzer, with analyses of other logs
\* in between and no add_rule call, return equal diagnostics, and the rules the
\* analyzer holds are the rules it held at each of its calls.
C12_AnalyseHasNoHiddenState ==
    /\ \A i \in 1..Len(calls), j \in 1..Len(calls) :
           calls[i].log = calls[j].log => calls[i].diagnostics = calls[j].diagnostics
    /\ \A i \in 1..Len(calls) : calls[i].registry = rules

\* a log analysed, another one analysed, the first one analysed again, on an
\* analyzer with a rule of a caller, with a diagnostic each time
C12_Witness ==
    /\ Len(rules) > Len(DefaultRules)
    /\ \E i \in 1..Len(calls), j \in 1..Len(calls), k \in 1..Len(calls) :
        /\ i < j /\ j < k
        /\ calls[i].log = calls[k].log
        /\ calls[j].log # calls[i].log
        /\ calls[i].diagnostics # <<>>
        /\ calls[j].diagnostics # <<>>
        /\ calls[k].diagnostics = calls[i].diagnostics

\* the run of the CLI has ended
CliDone == cli.exit # None

\* what main takes for the engine name is none of the two engines
InvalidEngineName ==
    cli.engine # None /\ cli.engine[1] \notin {"tectonic", "latexmk", "LATEXMK"}

\* the input path is missing, no regular file, or not to be looked at
BadInputPath == world.tex # "file"

\* C13 as stated: the CLI exits with 0 exactly when the compilation succeeded, with
\* 1 on a bad input path or an invalid engine name, and with 2 on every failure of
\* the compilation, with --json and without.
C13_ExitCodes ==
    CliDone =>
        /\ (cli.exit = Some(0)) <=> (result # None /\ result[1].success)
        /\ (BadInputPath \/ InvalidEngineName) => cli.exit = Some(1)
        /\ (/\ ~BadInputPath /\ ~InvalidEngineName
            /\ result # None /\ ~result[1].success) => cli.exit = Some(2)

\* compile_tex was called
Called == world.tex # "unreached"

\* C14 as stated: every call of compile_tex returns a result and lets no fault out;
\* a missing executable, a timeout and any other fault raised while the engine is
\* run give a failure with engine-not-found, timeout and compilation-error, the
\* last with the description of the fault as raw.
C14_NoFaultReachesCaller ==
    (Called /\ ~CliDone) =>
        /\ escaped = None
        /\ result # None
        /\ (world.tex = "file" /\ world.engine \in Engines \ world.onPath) =>
               /\ ~result[1].success
               /\ result[1].diagnostics[1].code = "engine-not-found"
        /\ world.proc.kind = "TimeoutExpired" =>
               /\ ~result[1].success
               /\ result[1].diagnostics[1].code = "timeout"
        /\ (world.mkdir = "PermissionError" \/ world.proc.kind = "PermissionError") =>
               /\ ~result[1].success
               /\ result[1].diagnostics[1].code = "compilation-error"
               /\ result[1].diagnostics[1].raw
                      = (IF world.mkdir = "PermissionError"
                         THEN <<"mkdir: ", world.mkdir>> ELSE <<world.proc.kind>>)

\* the offsets where a line of the log begins with "!"
BangLines(lg) == {i \in Offsets(lg) : lg[i + 1] = "!" /\ (i = 0 \/ lg[i] = "\n")}

\* the line that begins at offset i, without its newline
LineText(lg, i) == Slice(lg, i, LineEnd(lg, i))

\* the lowercased line holds one of the four substrings
HoldsSkipWord(line) ==
    \E word \in {KwUndefined, KwFile, KwNotFound, KwRunaway} :
        \E o \in 0..(Len(line) - Len(word)) :
            \A k \in 1..Len(word) : LowerChar(line[o + k]) = word[k]

\* raw is the line without the whitespace at its two ends
IsTrimOf(raw, line) ==
    /\ raw # <<>>
    /\ raw[1] \notin Whitespace /\ raw[Len(raw)] \notin Whitespace
    /\ \E a \in 0..Len(line) :
        /\ a + Len(raw) <= Len(line)
        /\ \A k \in 1..Len(raw) : line[a + k] = raw[k]
        /\ \A k \in 1..Len(line) : (k <= a \/ k > a + Len(raw)) => line[k] \in Whitespace

\* the lines beginning with "!" that hold none of the four substrings
PlainBangLines(lg) == {i \in BangLines(lg) : ~HoldsSkipWord(LineText(lg, i))}

\* C15: with the default rules, a line beginning with "!" gives one latex-error
\* diagnostic of level error with the trimmed line as raw when its lowercased text
\* holds none of the four substrings, and none when it holds one; a log without
\* such a line and without a match of the specific rules gives no diagnostics.
C15_GenericRuleReportsPlainBangLines ==
    phase = "analysed" =>
        /\ \A i \in BangLines(log) :
               \E n \in 1..Len(run.trail) :
                   /\ Trail(n).rule = 4 /\ Trail(n).span = <<i, LineEnd(log, i)>>
                   /\ \A o \in 1..Len(run.trail) :
                          (Trail(o).rule = 4 /\ Trail(o).span[1] = i) => o = n
                   /\ IF HoldsSkipWord(LineText(log, i)) THEN Trail(n).diags = <<>>
                      ELSE /\ Len(Trail(n).diags) = 1
                           /\ Trail(n).diags[1].code = "latex-error"
                           /\ Trail(n).diags[1].level = "error"
                           /\ IsTrimOf(Trail(n).diags[1].raw, LineText(log, i))
        /\ run.diagnostics = TrailDiags(run.trail)
        /\ CodeCount("latex-error") = Cardinality(PlainBangLines(log))
        /\ (/\ BangLines(log) = {}
            /\ UcsTriggers(log) = {} /\ PkgTriggers(log) = {} /\ RunawayTriggers(log) = {})
               => run.diagnostics = <<>>

\* a log with a plain line that ends in a blank, reported, and a line that holds
\* "File", not reported
C15_Witness ==
    /\ phase = "analysed"
    /\ rules = DefaultRules
    /\ \E i \in PlainBangLines(log), j \in BangLines(log) \ PlainBangLines(log) :
        /\ log[LineEnd(log, i)] = " "
        /\ ~Contains(LineText(log, j), KwFile)
        /\ UcsTriggers(log) = {} /\ PkgTriggers(log) = {}
    /\ CodeCount("latex-error") = Cardinality(PlainBangLines(log))
    /\ CodeCount("latex-error") >= 1

\* the n-th visit is to a span that an earlier visit handed to a handler which returned
ClaimedBefore(n) ==
    \E j \in 1..(n - 1) : Trail(j).span = Trail(n).span /\ Trail(j).outcome = "handled"

\* an earlier visit, handled, to a span that is not the span of the n-th one but
\* overlaps it, contains it or lies inside it
OverlapsClaimed(n) ==
    \E j \in 1..(n - 1) :
        /\ Trail(j).outcome = "handled"
        /\ Trail(j).span # Trail(n).span
        /\ Trail(j).span[1] < Trail(n).span[2] /\ Trail(n).span[1] < Trail(j).span[2]

\* C16: for any rules, every match is visited, and it is skipped without a call of
\* its handler exactly when an earlier match with the very same span was handled
\* by a handler that returned, be it an empty list; an overlap with a claimed span
\* stops nothing, and the span of a match whose handler raised is not claimed.
C16_SkippedIffExactSpanClaimed ==
    phase = "analysed" =>
        /\ \A k \in 1..Len(rules) :
               \A m \in Range(FindIter(rules[k].pattern, log)) :
                   \E n \in 1..Len(run.trail) :
                       Trail(n).rule = k /\ Trail(n).span = <<m.s, m.e>>
        /\ \A n \in 1..Len(run.trail) :
               /\ (Trail(n).outcome = "skipped") <=> ClaimedBefore(n)
               /\ Trail(n).outcome = "skipped" => Trail(n).diags = <<>>
        /\ run.matched_positions
               = {Trail(n).span : n \in {o \in 1..Len(run.trail) : Trail(o).outcome = "handled"}}

\* one run in which a match is skipped for its span, a match with the span of a
\* match whose handler raised is handled, and matches inside a claimed span are handled
C16_Witness ==
    /\ phase = "analysed"
    /\ \E a \in 1..Len(run.trail), c \in 1..Len(run.trail) :
        /\ Trail(a).outcome = "skipped" /\ ClaimedBefore(a)
        /\ Trail(c).outcome = "handled" /\ FailedBefore(c) /\ OverlapsClaimed(c)
        /\ Trail(c).span \in run.matched_positions

====
